---- MODULE Spec2Model ----
(***************************************************************************)
(* Model of the PagerDuty API client (lib/pagerduty.js, lib/utils.js).     *)
(* The client exposes get, post, put and delete; get drives a pagination   *)
(* loop (query) over the HTTP transport, and every verb reports through a  *)
(* node-style callback(err, res).                                          *)
(***************************************************************************)
EXTENDS Integers, Sequences, FiniteSets, TLC

VARIABLES client, calls, probe

vars == <<client, calls, probe>>

(***************************************************************************)
(* Bounds of the model.                                                    *)
(***************************************************************************)
\* a server answers `more: true` on at most MaxPages - 1 pages of one get
MaxPages == 2
\* the network fails at most MaxFaults times during one call
MaxFaults == 1

(***************************************************************************)
(* JavaScript values.  Every value is a record tagged by t; the payload    *)
(* field is named differently for each tag.                                *)
(***************************************************************************)
Undefined == [t |-> "undefined"]
Null == [t |-> "null"]
NaN == [t |-> "nan"]
\* a property the object does not own (hasOwnProperty is false)
Absent == [t |-> "absent"]
Bool(b) == [t |-> "bool", b |-> b]
Num(n) == [t |-> "num", n |-> n]
Str(s) == [t |-> "str", s |-> s]
Arr(a) == [t |-> "arr", a |-> a]
\* an object is the sequence of its <<key, value>> properties in key order
Obj(o) == [t |-> "obj", o |-> o]
\* new Error(message)
Error(m) == [t |-> "Error", message |-> m]
\* the TypeError of a property read on null or undefined
TypeError == [t |-> "TypeError"]
\* whatever the caller's callback throws
CallbackThrown == [t |-> "thrown"]
\* the error axios rejects with: response is Absent on a transport failure
AxiosError(code, response) == [t |-> "AxiosError", code |-> code, response |-> response]

\* the last element of a list
Last(seq) == seq[Len(seq)]

\* ToBoolean
Truthy(v) ==
  CASE v.t \in {"undefined", "null", "nan", "absent"} -> FALSE
    [] v.t = "bool" -> v.b
    [] v.t = "num" -> v.n # 0
    [] v.t = "str" -> v.s # ""
    [] OTHER -> TRUE

\* the index of property k in the property list o, 0 when o has no k
RECURSIVE PropIndex(_, _, _)
PropIndex(o, k, i) ==
  IF i > Len(o) THEN 0
  ELSE IF o[i][1] = k THEN i
  ELSE PropIndex(o, k, i + 1)

\* v[k] for a value v that is neither null nor undefined
GetProp(v, k) ==
  IF v.t = "obj" /\ PropIndex(v.o, k, 1) # 0
  THEN v.o[PropIndex(v.o, k, 1)][2]
  ELSE Undefined

\* a read of v[k] throws when v is null or undefined
ReadThrows(v) == v.t \in {"undefined", "null"}

\* a concat that skips the elements the results already hold
ConcatDedup(results, v) ==
  LET elems == IF v.t = "arr" THEN v.a ELSE <<v>>
      held(e) == \E i \in 1..Len(results) : results[i] = e
  IN results \o SelectSeq(elems, LAMBDA e : ~held(e))

\* a concat that takes lists only
ConcatListsOnly(results, v) ==
  IF v.t = "arr" THEN results \o v.a ELSE results

\* a concat that spreads the lists inside a list as well
RECURSIVE Flatten(_)
Flatten(elems) ==
  IF elems = <<>> THEN <<>>
  ELSE (IF Head(elems).t = "arr" THEN Head(elems).a ELSE <<Head(elems)>>)
       \o Flatten(Tail(elems))

ConcatFlatAll(results, v) ==
  IF v.t = "arr" THEN results \o Flatten(v.a) ELSE Append(results, v)

\* a push: whatever the value, one element more
ConcatWhole(results, v) == Append(results, v)

\* Array.prototype.concat: an array argument is spread, anything else is
\* appended as one element
Concat(results, v) ==
  IF v.t = "arr" THEN results \o v.a ELSE Append(results, v)

\* an addition that forgets its second operand
JsAddStuck(a, b) == a

\* an addition of the limit every request asks for, whatever the page
\* reports
JsAddHundred(a, b) == IF a.t = "num" THEN Num(a.n + 100) ELSE NaN

\* a + b on numbers: undefined or NaN on either side gives NaN
JsAdd(a, b) ==
  IF a.t = "num" /\ b.t = "num" THEN Num(a.n + b.n)
  ELSE IF a.t = "num" /\ b.t = "null" THEN a
  ELSE NaN

\* Object.assign(target, source) on property lists; a source that is not an
\* object contributes nothing
RECURSIVE AssignProps(_, _)
AssignProps(target, source) ==
  IF source = <<>> THEN target
  ELSE LET p == Head(source)
           i == PropIndex(target, p[1], 1)
           merged == IF i = 0 THEN Append(target, p)
                     ELSE [target EXCEPT ![i] = p]
       IN AssignProps(merged, Tail(source))

\* an assign that keeps the target's value of a name both have
RECURSIVE AssignNewProps(_, _)
AssignNewProps(target, source) ==
  IF source = <<>> THEN target
  ELSE AssignNewProps(IF PropIndex(target, Head(source)[1], 1) = 0
                      THEN Append(target, Head(source)) ELSE target,
                      Tail(source))

ObjectAssignKeep(target, source) ==
  IF source.t = "obj" THEN AssignNewProps(target, source.o) ELSE target

ObjectAssign(target, source) ==
  IF source.t = "obj" THEN AssignProps(target, source.o) ELSE target

(***************************************************************************)
(* JSON.stringify and the HTTP error string.                               *)
(***************************************************************************)
RECURSIVE JSONstringify(_)
RECURSIVE JoinElems(_, _)
RECURSIVE JoinProps(_, _)

\* the elements of an array: undefined and NaN print as null
JoinElems(a, first) ==
  IF a = <<>> THEN ""
  ELSE (IF first THEN "" ELSE ",")
       \o (IF Head(a).t \in {"undefined", "nan"} THEN "null" ELSE JSONstringify(Head(a)))
       \o JoinElems(Tail(a), FALSE)

\* the properties of an object: an undefined property is left out
JoinProps(o, first) ==
  IF o = <<>> THEN ""
  ELSE IF Head(o)[2].t = "undefined" THEN JoinProps(Tail(o), first)
  ELSE (IF first THEN "" ELSE ",")
       \o "\"" \o Head(o)[1] \o "\":" \o JSONstringify(Head(o)[2])
       \o JoinProps(Tail(o), FALSE)

\* the text `${JSON.stringify(v)}`
JSONstringify(v) ==
  CASE v.t = "undefined" -> "undefined"
    [] v.t \in {"null", "nan"} -> "null"
    [] v.t = "bool" -> IF v.b THEN "true" ELSE "false"
    [] v.t = "num" -> ToString(v.n)
    [] v.t = "str" -> "\"" \o v.s \o "\""
    [] v.t = "arr" -> "[" \o JoinElems(v.a, TRUE) \o "]"
    [] v.t = "obj" -> "{" \o JoinProps(v.o, TRUE) \o "}"
    [] OTHER -> "{}"

\* the error string with the body put in the template as it is
HttpErrorPlain(status, data) ==
  Str("HTTP status code " \o ToString(status) \o ": "
      \o (IF data.t \in {"obj", "arr"} THEN "[object Object]" ELSE JSONstringify(data)))

\* `HTTP status code ${status}: ${JSON.stringify(data)}`
HttpErrorString(status, data) ==
  Str("HTTP status code " \o ToString(status) \o ": " \o JSONstringify(data))

(***************************************************************************)
(* lib/utils.js: updateUrl, with url.parse / url.format and the            *)
(* querystring module.  An address is kept in parsed form: the base, the   *)
(* path name and the query as the list of its raw `k=v` parts, each        *)
(* [k, v, eq] with eq telling whether the part has an `=`.                 *)
(***************************************************************************)
baseUrl == "https://api.pagerduty.com/"

Param(k, v) == [k |-> k, v |-> v, eq |-> TRUE]
Flag(k) == [k |-> k, v |-> "", eq |-> FALSE]
\* a non-empty options.path: `${pathname}?${search}`, or pathname alone
Path(pathname, search) == [t |-> "path", pathname |-> pathname, search |-> search]
\* `${baseUrl}${options.path}`
Address(path) == [base |-> baseUrl, pathname |-> path.pathname, search |-> path.search]

\* querystring.unescape with `+` read as a space, on the texts in use
QsUnescape(s) ==
  CASE s = "Dev%20Null" -> "Dev Null"
    [] s = "a+b" -> "a b"
    [] s = "a%20b" -> "a b"
    [] OTHER -> s

\* querystring.escape, on the texts in use
QsEscape(s) ==
  CASE s = "Dev Null" -> "Dev%20Null"
    [] s = "a b" -> "a%20b"
    [] OTHER -> s

\* the keys that are array indices, in numeric order: a JavaScript object
\* lists them first, ascending, before its other keys
IndexKeys == <<"0", "1", "2", "10">>

RECURSIVE IndexRank(_, _)
IndexRank(k, i) ==
  IF i > Len(IndexKeys) THEN 0
  ELSE IF IndexKeys[i] = k THEN i
  ELSE IndexRank(k, i + 1)

\* where a new key k goes in the property list o
RECURSIVE InsertAt(_, _, _)
InsertAt(o, k, i) ==
  IF i > Len(o) THEN i
  ELSE IF IndexRank(k, 1) = 0 THEN Len(o) + 1
  ELSE IF IndexRank(o[i][1], 1) = 0 \/ IndexRank(o[i][1], 1) > IndexRank(k, 1) THEN i
  ELSE InsertAt(o, k, i + 1)

\* obj[k] = v for a key the object does not have
SetNewProp(o, k, v) ==
  LET i == InsertAt(o, k, 1)
  IN SubSeq(o, 1, i - 1) \o << <<k, v>> >> \o SubSeq(o, i, Len(o))

\* querystring.parse: the object of the decoded keys; a key's value is the
\* list of the values given for it (a repeated key collects them)
RECURSIVE QsParseInto(_, _)
QsParseInto(o, search) ==
  IF search = <<>> THEN o
  ELSE LET p == Head(search)
           k == QsUnescape(p.k)
           v == Str(QsUnescape(p.v))
           i == PropIndex(o, k, 1)
           next == IF i = 0 THEN SetNewProp(o, k, <<v>>)
                   ELSE [o EXCEPT ![i] = <<k, Append(o[i][2], v)>>]
       IN QsParseInto(next, Tail(search))

QsParse(search) == QsParseInto(<<>>, search)

\* stringifyPrimitive: a string as is, a finite number in decimal, a
\* boolean as true/false, anything else as the empty text
StringifyPrimitive(v) ==
  CASE v.t = "str" -> v.s
    [] v.t = "num" -> ToString(v.n)
    [] v.t = "bool" -> IF v.b THEN "true" ELSE "false"
    [] OTHER -> ""

\* the `k=v` parts querystring.stringify writes for one key
RECURSIVE StringifyValues(_, _)
StringifyValues(k, vs) ==
  IF vs = <<>> THEN <<>>
  ELSE <<Param(QsEscape(k), QsEscape(StringifyPrimitive(Head(vs))))>>
       \o StringifyValues(k, Tail(vs))

RECURSIVE QsStringify(_)
QsStringify(o) ==
  IF o = <<>> THEN <<>>
  ELSE StringifyValues(Head(o)[1], Head(o)[2]) \o QsStringify(Tail(o))

\* a default that also takes the place of an empty value, as a test of
\* truthiness (`if (!qs[k])`) would
WithDefaultFalsy(qs, k, v) ==
  LET i == PropIndex(qs, k, 1)
  IN IF i = 0 THEN SetNewProp(qs, k, <<v>>)
     ELSE IF qs[i][2] = <<Str("")>> THEN [qs EXCEPT ![i] = <<k, <<v>>>>]
     ELSE qs

\* qs with the property k defaulted to v
WithDefault(qs, k, v) ==
  IF PropIndex(qs, k, 1) = 0 THEN SetNewProp(qs, k, <<v>>) ELSE qs

\* the defaults set in the order limit, total, offset
updateUrlLimitFirst(address, offset) ==
  LET qs == QsParse(address.search)
      q1 == WithDefault(qs, "limit", Num(100))
      q2 == WithDefault(q1, "total", Bool(TRUE))
      q3 == WithDefault(q2, "offset", offset)
  IN [address EXCEPT !.search = QsStringify(q3)]

\* the defaults written behind the query without reading it
updateUrlConcat(address, offset) ==
  [address EXCEPT !.search =
     @ \o <<Param("offset", StringifyPrimitive(offset)),
            Param("total", "true"), Param("limit", "100")>>]

\* the cursor written over an offset the query has
updateUrlCursor(address, offset) ==
  LET qs == QsParse(address.search)
      i == PropIndex(qs, "offset", 1)
      q1 == IF i = 0 THEN SetNewProp(qs, "offset", <<offset>>)
            ELSE [qs EXCEPT ![i] = <<"offset", <<offset>>>>]
      q2 == WithDefault(q1, "total", Bool(TRUE))
      q3 == WithDefault(q2, "limit", Num(100))
  IN [address EXCEPT !.search = QsStringify(q3)]

updateUrl(address, offset) ==
  LET qs == QsParse(address.search)
      q1 == WithDefault(qs, "offset", offset)
      q2 == WithDefault(q1, "total", Bool(TRUE))
      q3 == WithDefault(q2, "limit", Num(100))
  IN [address EXCEPT !.search = QsStringify(q3)]

\* the text of a query
RECURSIVE SearchText(_, _)
SearchText(search, first) ==
  IF search = <<>> THEN ""
  ELSE (IF first THEN "" ELSE "&")
       \o Head(search).k \o (IF Head(search).eq THEN "=" \o Head(search).v ELSE "")
       \o SearchText(Tail(search), FALSE)

\* the text of an address as url.format writes it
UrlText(address) ==
  address.base \o address.pathname
  \o (IF address.search = <<>> THEN "" ELSE "?" \o SearchText(address.search, TRUE))

(***************************************************************************)
(* Inputs: what a caller may pass and what a server may answer.            *)
(***************************************************************************)
\* the longest query handed to updateUrl directly
MaxQuery == 3

\* the parts a query handed to updateUrl is made of: the three keys
\* updateUrl knows (one with the value false, one with an empty value), an
\* encoded value, an array-index key, a `+` and a key without `=`
UrlParts ==
  {Param("query", "Dev%20Null"), Param("offset", "5"), Param("total", "false"),
   Param("limit", ""), Param("2", "x"), Param("b", "a+b"), Flag("c")}

UrlSearches == UNION {[1..n -> UrlParts] : n \in 0..MaxQuery}

\* the offsets handed to updateUrl: numbers, the NaN a get can reach and
\* the null of the tests
UrlOffsets == {Num(0), Num(10), NaN, Null}

\* new PagerDuty(options)
ClientOptions ==
  [pagerDutyToken : {Absent, Str("tokA")}, timeout : {Absent}]

Paths ==
  {Absent, Str(""),
   Path("users", <<>>),
   Path("users", <<Param("offset", "5")>>)}

Keys == {Absent, Str("users")}
CallTokens == {Absent, Str(""), Str("tokB")}
CallTimeouts == {Absent, Num(1)}
RequestBodies == {Absent, Obj(<< <<"user", Str("x")>> >>)}
CallHeaders ==
  {Absent,
   Obj(<< <<"From", Str("x@y")>> >>),
   Obj(<< <<"Authorization", Str("Basic zz")>> >>),
   Obj(<< <<"From", Str("x@y")>>, <<"Accept", Str("text/plain")>> >>)}

\* the options of a get; the empty token and the timeout of a call are
\* varied on the other verbs
GetOptions ==
  [path : Paths, key : Keys, token : {Absent, Str("tokB")}, timeout : {Absent},
   body : {Absent}, headers : {Absent}]

SendOptions ==
  [path : Paths, key : {Absent}, token : CallTokens, timeout : CallTimeouts,
   body : RequestBodies, headers : CallHeaders]

DeleteOptions ==
  [path : Paths, key : {Absent}, token : CallTokens, timeout : CallTimeouts,
   body : {Absent}, headers : {Absent}]

\* the limit a page reports next to `more: true`: none, zero, negative,
\* positive
Limits == {Absent, Num(0), Num(-1), Num(2)}

\* a list page { users: [...], more: true, limit: l }
PageMore(l) ==
  Obj(<< <<"users", Arr(<<Str("a"), Str("b")>>)>>, <<"more", Bool(TRUE)>> >>
      \o (IF l = Absent THEN <<>> ELSE << <<"limit", l>> >>))

LastPage == Obj(<< <<"users", Arr(<<Str("b")>>)>>, <<"more", Bool(FALSE)>> >>)
\* a body with neither more nor limit, and a value under the key that is
\* not a list
SinglePage == Obj(<< <<"users", Str("c")>> >>)
NotFound == Obj(<< <<"error", Str("Not Found")>> >>)

ResponseBodies ==
  {PageMore(l) : l \in Limits}
  \cup {LastPage, SinglePage, NotFound, Null, Str(""), Arr(<<Str("a"), Str("a")>>)}

Statuses == {200, 201, 204, 404, 500}

\* the responses a server gives, [status, data]: every body with 200, and
\* with each other status an object and one of the bodies without fields
Responses ==
  [status : {200}, data : ResponseBodies]
  \cup [status : Statuses \ {200}, data : {NotFound}]
  \cup {[status |-> 201, data |-> Str("")], [status |-> 204, data |-> Str("")],
        [status |-> 204, data |-> Null], [status |-> 404, data |-> Null],
        [status |-> 500, data |-> Str("")]}

\* the codes of a failure with no response: a reset connection, an unknown
\* host
TransportCodes == {"ECONNRESET", "ENOTFOUND"}

\* the timeouts a client is constructed with: none, 5 ms, and the property
\* present with the value undefined
TimedClientOptions ==
  [pagerDutyToken : {Str("tokA")}, timeout : {Absent, Num(5), Undefined}]

\* the timeouts a call gives: none, 1 ms as in the tests, 0, and the
\* property present with the value undefined
GivenTimeouts == {Absent, Num(1), Num(0), Undefined}

TimedGetOptions ==
  [path : {Path("users", <<>>)}, key : {Str("users")}, token : {Absent},
   timeout : GivenTimeouts, body : {Absent}, headers : {Absent}]

TimedSendOptions ==
  [path : {Path("users", <<>>)}, key : {Absent}, token : {Absent},
   timeout : GivenTimeouts, body : RequestBodies \ {Absent}, headers : {Absent}]

TimedDeleteOptions ==
  [path : {Path("users", <<>>)}, key : {Absent}, token : {Absent},
   timeout : GivenTimeouts, body : {Absent}, headers : {Absent}]

\* the answers of a server that is in time: a page with more to come, a
\* last page, and the empty bodies of post and delete
TimedResponses ==
  {[status |-> 200, data |-> PageMore(Num(2))], [status |-> 200, data |-> LastPage],
   [status |-> 201, data |-> Str("")], [status |-> 204, data |-> Str("")]}

\* the client two calls share
SharedClientOptions == [pagerDutyToken |-> Str("tokA"), timeout |-> Absent]

\* the calls made side by side: gets with and without a token of their own,
\* and a post, a put and a delete with a timeout of their own
SharedGetOptions ==
  [path : {Path("users", <<>>)}, key : {Str("users")}, token : {Absent, Str("tokB")},
   timeout : {Absent}, body : {Absent}, headers : {Absent}]

SharedSendOptions ==
  [path : {Path("users", <<>>)}, key : {Absent}, token : {Absent},
   timeout : {Num(1)}, body : RequestBodies \ {Absent}, headers : {Absent}]

SharedDeleteOptions ==
  [path : {Path("users", <<>>)}, key : {Absent}, token : {Absent},
   timeout : {Num(1)}, body : {Absent}, headers : {Absent}]

SharedResponses ==
  {[status |-> 200, data |-> PageMore(Num(2))], [status |-> 200, data |-> LastPage],
   [status |-> 201, data |-> Str("")], [status |-> 204, data |-> Str("")],
   [status |-> 404, data |-> NotFound]}

\* the most requests a get is followed through when only its paging is
\* looked at
MaxDepth == 4

\* the gets followed page by page: with and without a key, on a path with
\* and without an offset of the caller's
PagedGetOptions ==
  [path : {Path("users", <<>>), Path("users", <<Param("offset", "5")>>)},
   key : {Absent, Str("users")}, token : {Absent}, timeout : {Absent},
   body : {Absent}, headers : {Absent}]

\* a page whose list holds a list: { users: [["a"], "b"], more: true, limit: 2 }
NestedPage ==
  Obj(<< <<"users", Arr(<<Arr(<<Str("a")>>), Str("b")>>)>>,
         <<"more", Bool(TRUE)>>, <<"limit", Num(2)>> >>)

\* the pages of a server that pages: more to come with a limit of 2, of 3
\* and with none, a list in a list, a last page, a value that is no list, a
\* body that is itself a list, and a 404
PagedResponses ==
  [status : {200},
   data : {PageMore(Num(2)), PageMore(Num(3)), PageMore(Absent), NestedPage,
           LastPage, SinglePage, Arr(<<Str("a"), Str("a")>>)}]
  \cup {[status |-> 404, data |-> NotFound]}

\* two clients with different defaults
FirstClientOptions == [pagerDutyToken |-> Str("tokA"), timeout |-> Num(5)]
SecondClientOptions == [pagerDutyToken |-> Str("tokC"), timeout |-> Num(7)]

\* the options objects handed to the first client: with and without a
\* path, a body, a token and a timeout of their own
ReusedOptions ==
  [path : {Absent, Path("users", <<>>)}, key : {Absent}, token : {Absent, Str("tokB")},
   timeout : {Absent, Num(1)}, body : RequestBodies, headers : {Absent}]

\* the answers of a server in trouble: the pages and empty bodies of
\* success, a 404, and two 5xx statuses
RetriedResponses ==
  {[status |-> 200, data |-> PageMore(Num(2))], [status |-> 200, data |-> LastPage],
   [status |-> 201, data |-> Str("")], [status |-> 204, data |-> Str("")],
   [status |-> 404, data |-> NotFound],
   [status |-> 500, data |-> Str("")], [status |-> 503, data |-> NotFound]}

\* the code of a timeout under clarifyTimeoutError
TimeoutCode == "ETIMEDOUT"

(***************************************************************************)
(* State.  client is the PagerDuty instance; calls[c] is one call of a     *)
(* verb: its options object, the closure of get (results, offset), the     *)
(* requests handed to axios, the promise being waited on, and the          *)
(* invocations of the caller's callback.  received logs the responses the  *)
(* server gave and the verb saw, failures counts the attempts that failed   *)
(* with no response or were sent again, resent lists the statuses on      *)
(* account of which the request in flight was sent again, and passed       *)
(* keeps the options as the caller passed them.  probe holds a URL and an  *)
(* offset handed to updateUrl directly, with the URLs it returned.         *)
(***************************************************************************)
\* a constructor that keeps the fixed timeout whatever the options say
constructorFixed(options) ==
  [token |-> IF options.pagerDutyToken = Absent THEN Undefined ELSE options.pagerDutyToken,
   timeout |-> Num(10000)]

\* PagerDuty.constructor
constructor(options) ==
  [token |-> IF options.pagerDutyToken = Absent THEN Undefined ELSE options.pagerDutyToken,
   timeout |-> IF options.timeout # Absent THEN options.timeout ELSE Num(10000)]

NoOptions ==
  [path |-> Absent, key |-> Absent, token |-> Absent, timeout |-> Absent,
   body |-> Absent, headers |-> Absent]

NewCall ==
  [pc |-> "idle", verb |-> "none", options |-> NoOptions,
   results |-> <<>>, offset |-> Num(0), requests |-> <<>>, attempts |-> 0,
   failures |-> 0, resent |-> <<>>, received |-> <<>>, passed |-> NoOptions,
   res |-> Absent, err |-> Absent, callbacks |-> <<>>, uncaught |-> FALSE]

\* probe is the bench of updateUrl: no URL is on it while the verbs run
NoProbe == [t |-> "none"]

Init ==
  /\ client \in {constructor(o) : o \in ClientOptions}
  /\ calls = [c \in {1} |-> NewCall]
  /\ probe = NoProbe

\* callback(err, res); callback(err) leaves res undefined
Invocation(err, res) == [err |-> err, res |-> res]

\* the retries option of axiosRetry
retries == 3

\* axios-retry retries a failure that has no response, unless the host is
\* unknown
retryCondition(code) == code # "ENOTFOUND"

\* `${v}` in a template literal
TemplateText(v) ==
  CASE v.t = "str" -> v.s
    [] v.t = "num" -> ToString(v.n)
    [] v.t = "bool" -> IF v.b THEN "true" ELSE "false"
    [] v.t = "nan" -> "NaN"
    [] v.t = "null" -> "null"
    [] OTHER -> "undefined"

\* the headers literal of every request
MandatoryHeaders(token) ==
  << <<"Accept", Str("application/vnd.pagerduty+json;version=2")>>,
     <<"Authorization", Str("Token token=" \o TemplateText(token))>> >>

(***************************************************************************)
(* The verbs.                                                              *)
(***************************************************************************)
\* a callback call that names an error next to a result
InvokeBoth(call, err, res) ==
  [call EXCEPT !.callbacks =
     Append(@, Invocation(IF res # Undefined THEN Str("ok") ELSE err, res))]

\* callback(err, res): one more invocation of the caller's callback
Invoke(call, err, res) ==
  [call EXCEPT !.callbacks = Append(@, Invocation(err, res))]

\* a verb that returns on a failed check without telling the callback
RefuseSilently(call, verb, options, message, thrown) ==
  [call EXCEPT !.pc = "done", !.verb = verb, !.options = options, !.passed = options]

\* a verb that writes the token and timeout into the options before it
\* checks them
RefuseAfterWrite(call, verb, options, message, thrown) ==
  [Invoke(call, Error(message), Undefined) EXCEPT
     !.pc = "done", !.verb = verb,
     !.options = [options EXCEPT
                    !.token = IF ~Truthy(@) THEN client.token ELSE @,
                    !.timeout = IF @ = Absent THEN client.timeout ELSE @],
     !.passed = options, !.uncaught = thrown]

\* `return callback(new Error(message))` in the body of a verb: the call is
\* over, and what the callback throws goes to the caller of the verb
Refuse(call, verb, options, message, thrown) ==
  [Invoke(call, Error(message), Undefined) EXCEPT
     !.pc = "done", !.verb = verb, !.options = options, !.passed = options,
     !.uncaught = thrown]

\* a resolution that prefers the client's token to the call's
ResolveClientFirst(options) ==
  LET o1 == IF Truthy(client.token) THEN [options EXCEPT !.token = client.token]
            ELSE options
  IN IF o1.timeout = Absent THEN [o1 EXCEPT !.timeout = client.timeout] ELSE o1

\* the token and timeout lines shared by the verbs: options.token and
\* options.timeout are written when the call does not give them
Resolve(options) ==
  LET o1 == IF ~Truthy(options.token) THEN [options EXCEPT !.token = client.token]
            ELSE options
  IN IF o1.timeout = Absent THEN [o1 EXCEPT !.timeout = client.timeout] ELSE o1

\* a transport asked for the request and, ahead of its answer, for the
\* same request once more
AxiosPrefetch(call, config) ==
  [call EXCEPT !.pc = "inflight", !.requests = Append(Append(@, config), config),
               !.attempts = 1, !.resent = <<>>, !.res = Absent, !.err = Absent]

\* axios(config): one request handed to the transport, first attempt
Axios(call, config) ==
  [call EXCEPT !.pc = "inflight", !.requests = Append(@, config), !.attempts = 1,
               !.resent = <<>>, !.res = Absent, !.err = Absent]

\* a query that requests the caller's path as it stands
queryPlain(call, offset) ==
  Axios([call EXCEPT !.offset = offset],
        [method |-> "GET",
         url |-> Address(call.options.path),
         headers |-> MandatoryHeaders(call.options.token),
         data |-> Absent,
         timeout |-> call.options.timeout,
         offset |-> offset])

\* query(offset) of get
query(call, offset) ==
  Axios([call EXCEPT !.offset = offset],
        [method |-> "GET",
         url |-> updateUrl(Address(call.options.path), offset),
         headers |-> MandatoryHeaders(call.options.token),
         data |-> Absent,
         timeout |-> call.options.timeout,
         offset |-> offset])

\* a get that writes the call's token into the client instead of taking
\* the client's token for the call
getStoresToken(c, options) ==
  /\ calls[c].pc = "idle"
  /\ \E thrown \in BOOLEAN :
       calls' = [calls EXCEPT ![c] =
         IF ~Truthy(options.path)
         THEN Refuse(@, "get", options, "Must provide options.path", thrown)
         ELSE IF ~Truthy(options.token) /\ ~Truthy(client.token)
         THEN Refuse(@, "get", options, "Must provide PagerDuty access token", thrown)
         ELSE query([@ EXCEPT !.verb = "get", !.options = Resolve(options),
                              !.passed = options, !.results = <<>>],
                    Num(0))]
  /\ client' = IF Truthy(options.path) /\ Truthy(options.token)
               THEN [client EXCEPT !.token = options.token] ELSE client
  /\ UNCHANGED probe

get(c, options) ==
  /\ calls[c].pc = "idle"
  /\ \E thrown \in BOOLEAN :
       calls' = [calls EXCEPT ![c] =
         IF ~Truthy(options.path)
         THEN Refuse(@, "get", options, "Must provide options.path", thrown)
         ELSE IF ~Truthy(options.token) /\ ~Truthy(client.token)
         THEN Refuse(@, "get", options, "Must provide PagerDuty access token", thrown)
         ELSE query([@ EXCEPT !.verb = "get", !.options = Resolve(options),
                              !.passed = options, !.results = <<>>],
                    Num(0))]
  /\ UNCHANGED <<client, probe>>

\* post and put with the token looked at before the path and the body
SendTokenFirst(c, verb, method, options) ==
  /\ calls[c].pc = "idle"
  /\ \E thrown \in BOOLEAN :
       calls' = [calls EXCEPT ![c] =
         IF ~Truthy(options.token) /\ ~Truthy(client.token)
         THEN Refuse(@, verb, options, "Must provide PagerDuty access token", thrown)
         ELSE IF ~Truthy(options.path)
         THEN Refuse(@, verb, options, "Must provide options.path", thrown)
         ELSE IF ~Truthy(options.body)
         THEN Refuse(@, verb, options, "Must provide options.body", thrown)
         ELSE LET o == Resolve(options)
              IN Axios([@ EXCEPT !.verb = verb, !.options = o, !.passed = options],
                       [method |-> method,
                        url |-> Address(o.path),
                        headers |-> ObjectAssign(MandatoryHeaders(o.token), o.headers),
                        data |-> o.body,
                        timeout |-> o.timeout,
                        offset |-> Absent])]
  /\ UNCHANGED <<client, probe>>

\* post and put: the same body but for the method
Send(c, verb, method, options) ==
  /\ calls[c].pc = "idle"
  /\ \E thrown \in BOOLEAN :
       calls' = [calls EXCEPT ![c] =
         IF ~Truthy(options.path)
         THEN Refuse(@, verb, options, "Must provide options.path", thrown)
         ELSE IF ~Truthy(options.body)
         THEN Refuse(@, verb, options, "Must provide options.body", thrown)
         ELSE IF ~Truthy(options.token) /\ ~Truthy(client.token)
         THEN Refuse(@, verb, options, "Must provide PagerDuty access token", thrown)
         ELSE LET o == Resolve(options)
              IN Axios([@ EXCEPT !.verb = verb, !.options = o, !.passed = options],
                       [method |-> method,
                        url |-> Address(o.path),
                        headers |-> ObjectAssign(MandatoryHeaders(o.token), o.headers),
                        data |-> o.body,
                        timeout |-> o.timeout,
                        offset |-> Absent])]
  /\ UNCHANGED <<client, probe>>

post(c, options) == Send(c, "post", "POST", options)

put(c, options) == Send(c, "put", "PUT", options)

delete(c, options) ==
  /\ calls[c].pc = "idle"
  /\ \E thrown \in BOOLEAN :
       calls' = [calls EXCEPT ![c] =
         IF ~Truthy(options.path)
         THEN Refuse(@, "delete", options, "Must provide options.path", thrown)
         ELSE IF ~Truthy(options.token) /\ ~Truthy(client.token)
         THEN Refuse(@, "delete", options, "Must provide PagerDuty access token", thrown)
         ELSE LET o == Resolve(options)
              IN Axios([@ EXCEPT !.verb = "delete", !.options = o, !.passed = options],
                       [method |-> "DELETE",
                        url |-> Address(o.path),
                        headers |-> MandatoryHeaders(o.token),
                        data |-> Absent,
                        timeout |-> o.timeout,
                        offset |-> Absent])]
  /\ UNCHANGED <<client, probe>>

(***************************************************************************)
(* The transport: axios with axios-retry.                                  *)
(***************************************************************************)
\* the default validateStatus of axios
validateStatus(status) == status >= 200 /\ status < 300

\* the methods axios-retry takes for idempotent, of those the verbs use
IdempotentMethods == {"GET", "PUT", "DELETE"}

\* a condition that sends no request again on account of its status
retryStatusNever(method, status) == FALSE

\* the default retryCondition of axios-retry on a response: a 5xx status
\* answering an idempotent method
retryStatus(method, status) ==
  method \in IdempotentMethods /\ status >= 500 /\ status <= 599

\* a response arrives for the request in flight: the promise resolves on a
\* 2xx status; on any other axios-retry sends the request again when its
\* condition says so and retries are left, and else the promise rejects
\* with err.response set
Respond(c, status, data) ==
  /\ calls[c].pc = "inflight"
  /\ calls' = [calls EXCEPT ![c] =
       IF validateStatus(status)
       THEN [@ EXCEPT !.pc = "resolved", !.res = [status |-> status, data |-> data],
                      !.received = Append(@, [status |-> status, data |-> data])]
       ELSE IF retryStatus(Last(@.requests).method, status) /\ @.attempts <= retries
       THEN [@ EXCEPT !.attempts = @ + 1, !.failures = @ + 1,
                      !.resent = Append(@, status)]
       ELSE [@ EXCEPT !.pc = "rejected",
                      !.err = AxiosError("ERR_BAD_RESPONSE",
                                         [status |-> status, data |-> data]),
                      !.received = Append(@, [status |-> status, data |-> data])]]
  /\ UNCHANGED <<client, probe>>

\* a response as the verbs of one call are served it: no more than MaxPages
\* pages of a get, and no more than MaxFaults attempts that fail and are
\* sent again
Response(c, status, data) ==
  /\ (calls[c].verb = "get" /\ status = 200 /\ Truthy(GetProp(data, "more")))
       => Len(calls[c].requests) < MaxPages
  /\ (/\ calls[c].pc = "inflight"
      /\ retryStatus(Last(calls[c].requests).method, status)
      /\ calls[c].attempts <= retries)
       => calls[c].failures < MaxFaults
  /\ Respond(c, status, data)

\* a transport that sends a failed request again once more than retries
\* allows
TransportFailureOnceMore(c, code) ==
  /\ calls[c].pc = "inflight"
  /\ calls' = [calls EXCEPT ![c] =
       IF retryCondition(code) /\ @.attempts <= retries + 1
       THEN [@ EXCEPT !.attempts = @ + 1, !.failures = @ + 1]
       ELSE [@ EXCEPT !.pc = "rejected", !.failures = @ + 1,
                      !.err = AxiosError(code, Absent)]]
  /\ UNCHANGED <<client, probe>>

\* the request in flight fails with no response: axios-retry sends it again
\* while retries are left, then the promise rejects with the failure
TransportFailure(c, code) ==
  /\ calls[c].pc = "inflight"
  /\ calls' = [calls EXCEPT ![c] =
       IF retryCondition(code) /\ @.attempts <= retries
       THEN [@ EXCEPT !.attempts = @ + 1, !.failures = @ + 1]
       ELSE [@ EXCEPT !.pc = "rejected", !.failures = @ + 1,
                      !.err = AxiosError(code, Absent)]]
  /\ UNCHANGED <<client, probe>>

(***************************************************************************)
(* The promise handlers.                                                   *)
(***************************************************************************)
\* `return callback(...)` inside .then: a callback that throws rejects the
\* promise .then returns, which the .catch after it handles
Settle(call, thrown) ==
  IF thrown THEN [call EXCEPT !.pc = "rejected", !.err = CallbackThrown]
  ELSE [call EXCEPT !.pc = "done"]

\* a TypeError thrown inside .then
Throw(call) == [call EXCEPT !.pc = "rejected", !.err = TypeError]

\* a .then that stops asking after the second page and hands over what it
\* has
getThenCapped(c) ==
  /\ calls[c].pc = "resolved"
  /\ calls[c].verb = "get"
  /\ \E thrown \in BOOLEAN :
       LET call == calls[c]
           body == call.res.data
           key == call.options.key
       IN calls' = [calls EXCEPT ![c] =
            IF call.res.status # 200
            THEN Settle(Invoke(call, HttpErrorString(call.res.status, body), Undefined),
                        thrown)
            ELSE IF Truthy(key) /\ ReadThrows(body)
            THEN Throw(call)
            ELSE LET results == IF Truthy(key)
                                THEN Concat(call.results, GetProp(body, key.s))
                                ELSE Concat(call.results, body)
                     next == [call EXCEPT !.results = results]
                 IN IF ReadThrows(body)
                    THEN Throw(next)
                    ELSE IF Truthy(GetProp(body, "more")) /\ Len(call.requests) < 2
                    THEN query(next, JsAdd(call.offset, GetProp(body, "limit")))
                    ELSE Settle(Invoke(next, Null, Arr(results)), thrown)]
  /\ UNCHANGED <<client, probe>>

\* the .then of query
getThen(c) ==
  /\ calls[c].pc = "resolved"
  /\ calls[c].verb = "get"
  /\ \E thrown \in BOOLEAN :
       LET call == calls[c]
           body == call.res.data
           key == call.options.key
       IN calls' = [calls EXCEPT ![c] =
            IF call.res.status # 200
            THEN Settle(Invoke(call, HttpErrorString(call.res.status, body), Undefined),
                        thrown)
            ELSE IF Truthy(key) /\ ReadThrows(body)
            THEN Throw(call)
            ELSE LET results == IF Truthy(key)
                                THEN Concat(call.results, GetProp(body, key.s))
                                ELSE Concat(call.results, body)
                     next == [call EXCEPT !.results = results]
                 IN IF ReadThrows(body)
                    THEN Throw(next)
                    ELSE IF Truthy(GetProp(body, "more"))
                    THEN query(next, JsAdd(call.offset, GetProp(body, "limit")))
                    ELSE Settle(Invoke(next, Null, Arr(results)), thrown)]
  /\ UNCHANGED <<client, probe>>

\* every verb taking 200 for success
expectedOk(verb) == 200

\* the status a verb takes for success
expected(verb) ==
  CASE verb = "post" -> 201
    [] verb = "delete" -> 204
    [] OTHER -> 200

\* a .then that hands over the response body without the object around it
sendThenBare(c) ==
  /\ calls[c].pc = "resolved"
  /\ calls[c].verb \in {"post", "put", "delete"}
  /\ \E thrown \in BOOLEAN :
       LET call == calls[c]
       IN calls' = [calls EXCEPT ![c] =
            IF call.res.status # expected(call.verb)
            THEN Settle(Invoke(call, HttpErrorString(call.res.status, call.res.data),
                               Undefined),
                        thrown)
            ELSE Settle(Invoke(call, Null, call.res.data), thrown)]
  /\ UNCHANGED <<client, probe>>

\* the .then of post, put and delete
sendThen(c) ==
  /\ calls[c].pc = "resolved"
  /\ calls[c].verb \in {"post", "put", "delete"}
  /\ \E thrown \in BOOLEAN :
       LET call == calls[c]
       IN calls' = [calls EXCEPT ![c] =
            IF call.res.status # expected(call.verb)
            THEN Settle(Invoke(call, HttpErrorString(call.res.status, call.res.data),
                               Undefined),
                        thrown)
            ELSE Settle(Invoke(call, Null, Obj(<< <<"body", call.res.data>> >>)),
                        thrown)]
  /\ UNCHANGED <<client, probe>>

\* a .catch that hands over the pages gathered so far with the error
onRejectedPartial(call, err) ==
  [call EXCEPT !.callbacks = Append(@, Invocation(err, Arr(call.results)))]

\* a .catch that hands over the message of an error without a response
onRejectedMessage(call, err) ==
  IF err.t = "AxiosError" /\ err.response # Absent
  THEN Invoke(call, HttpErrorString(err.response.status, err.response.data), Undefined)
  ELSE Invoke(call, Str("request failed"), Undefined)

\* the body of .catch: the callback gets the HTTP error string when the
\* error carries a response, the error itself otherwise
onRejected(call, err) ==
  IF err.t = "AxiosError" /\ err.response # Absent
  THEN Invoke(call, HttpErrorString(err.response.status, err.response.data), Undefined)
  ELSE Invoke(call, err, Undefined)

\* the .catch of every verb: it receives the rejection of axios and
\* whatever the .then before it threw; what the callback throws here is
\* an unhandled rejection
catch(c) ==
  /\ calls[c].pc = "rejected"
  /\ \E thrown \in BOOLEAN :
       calls' = [calls EXCEPT ![c] =
         [onRejected(@, @.err) EXCEPT !.pc = "done", !.uncaught = thrown]]
  /\ UNCHANGED <<client, probe>>

Next ==
  \E c \in DOMAIN calls :
    \/ \E o \in GetOptions : get(c, o)
    \/ \E o \in SendOptions : post(c, o)
    \/ \E o \in SendOptions : put(c, o)
    \/ \E o \in DeleteOptions : delete(c, o)
    \/ \E r \in Responses : Response(c, r.status, r.data)
    \/ \E code \in TransportCodes :
         calls[c].failures < MaxFaults /\ TransportFailure(c, code)
    \/ getThen(c)
    \/ sendThen(c)
    \/ catch(c)

Spec == Init /\ [][Next]_vars

(***************************************************************************)
(* The verbs under timeouts: clients constructed with and without a        *)
(* timeout, calls with and without one, and requests that time out as      *)
(* often as axios-retry sends them again.                                  *)
(***************************************************************************)
InitTimeout ==
  /\ client \in {constructor(o) : o \in TimedClientOptions}
  /\ calls = [c \in {1} |-> NewCall]
  /\ probe = NoProbe

NextTimeout ==
  \E c \in DOMAIN calls :
    \/ \E o \in TimedGetOptions : get(c, o)
    \/ \E o \in TimedSendOptions : post(c, o)
    \/ \E o \in TimedSendOptions : put(c, o)
    \/ \E o \in TimedDeleteOptions : delete(c, o)
    \/ \E r \in TimedResponses : Response(c, r.status, r.data)
    \/ calls[c].failures <= retries /\ TransportFailure(c, TimeoutCode)
    \/ getThen(c)
    \/ sendThen(c)
    \/ catch(c)

SpecTimeout == InitTimeout /\ [][NextTimeout]_vars

(***************************************************************************)
(* Two calls on one client: the caller starts the second without waiting   *)
(* for the first, each with an options object of its own, and the          *)
(* responses and promise handlers of the two run in any order.             *)
(***************************************************************************)
InitShared ==
  /\ client = constructor(SharedClientOptions)
  /\ calls = [c \in {1, 2} |-> NewCall]
  /\ probe = NoProbe

NextShared ==
  \E c \in DOMAIN calls :
    \/ \E o \in SharedGetOptions : get(c, o)
    \/ \E o \in SharedSendOptions : post(c, o)
    \/ \E o \in SharedSendOptions : put(c, o)
    \/ \E o \in SharedDeleteOptions : delete(c, o)
    \/ \E r \in SharedResponses : Response(c, r.status, r.data)
    \/ calls[c].failures < MaxFaults /\ TransportFailure(c, "ENOTFOUND")
    \/ getThen(c)
    \/ sendThen(c)
    \/ catch(c)

SpecShared == InitShared /\ [][NextShared]_vars

(***************************************************************************)
(* The verbs over a transport in trouble: every attempt of a request may   *)
(* fail with no response or be answered 5xx, as often as axios-retry sends *)
(* it again.                                                               *)
(***************************************************************************)
InitRetry ==
  /\ client = constructor(SharedClientOptions)
  /\ calls = [c \in {1} |-> NewCall]
  /\ probe = NoProbe

NextRetry ==
  \E c \in DOMAIN calls :
    \/ \E o \in SharedGetOptions : get(c, o)
    \/ \E o \in SharedSendOptions : post(c, o)
    \/ \E o \in SharedSendOptions : put(c, o)
    \/ \E o \in SharedDeleteOptions : delete(c, o)
    \/ \E r \in RetriedResponses :
         /\ (calls[c].verb = "get" /\ Truthy(GetProp(r.data, "more")))
              => Len(calls[c].requests) < MaxPages
         /\ Respond(c, r.status, r.data)
    \/ \E code \in TransportCodes :
         calls[c].failures <= retries /\ TransportFailure(c, code)
    \/ getThen(c)
    \/ sendThen(c)
    \/ catch(c)

SpecRetry == InitRetry /\ [][NextRetry]_vars

(***************************************************************************)
(* One get followed page by page, up to MaxDepth requests, over a network  *)
(* that does not fail.                                                     *)
(***************************************************************************)
InitPaged ==
  /\ client = constructor(SharedClientOptions)
  /\ calls = [c \in {1} |-> NewCall]
  /\ probe = NoProbe

NextPaged ==
  \E c \in DOMAIN calls :
    \/ \E o \in PagedGetOptions : get(c, o)
    \/ \E r \in PagedResponses :
         /\ Truthy(GetProp(r.data, "more")) => Len(calls[c].requests) < MaxDepth
         /\ Respond(c, r.status, r.data)
    \/ getThen(c)
    \/ catch(c)

SpecPaged == InitPaged /\ [][NextPaged]_vars

(***************************************************************************)
(* An options object used twice: call 1 hands it to a verb of the first    *)
(* client, the caller then constructs a second client, and call 2 hands    *)
(* the same object, as call 1 left it, to a verb of the second client.     *)
(* client is the instance the caller uses for the next call; a call reads  *)
(* this.token and this.timeout when its verb is entered and not after.     *)
(***************************************************************************)
InitReuse ==
  /\ client = constructor(FirstClientOptions)
  /\ calls = [c \in {1, 2} |-> NewCall]
  /\ probe = NoProbe

\* new PagerDuty(options) once more, after call 1 has been made
anotherClient ==
  /\ client = constructor(FirstClientOptions)
  /\ calls[1].verb # "none"
  /\ client' = constructor(SecondClientOptions)
  /\ UNCHANGED <<calls, probe>>

\* the second client is in use and call 1 has left its options object
Reusable ==
  /\ client = constructor(SecondClientOptions)
  /\ calls[1].verb # "none"

NextReuse ==
  \/ \E o \in ReusedOptions : get(1, o)
  \/ \E o \in ReusedOptions : post(1, o)
  \/ \E o \in ReusedOptions : put(1, o)
  \/ \E o \in ReusedOptions : delete(1, o)
  \/ anotherClient
  \/ Reusable /\ get(2, calls[1].options)
  \/ Reusable /\ post(2, calls[1].options)
  \/ Reusable /\ put(2, calls[1].options)
  \/ Reusable /\ delete(2, calls[1].options)
  \/ \E c \in DOMAIN calls :
       \/ \E r \in TimedResponses : Response(c, r.status, r.data)
       \/ getThen(c)
       \/ sendThen(c)
       \/ catch(c)

SpecReuse == InitReuse /\ [][NextReuse]_vars

(***************************************************************************)
(* updateUrl on its own: a URL and an offset are put on the bench, the      *)
(* function is applied to them, and then applied again to what it returned *)
(* with the same offset.                                                   *)
(***************************************************************************)
InitUrl ==
  /\ client \in {constructor(o) : o \in ClientOptions}
  /\ calls = [c \in {1} |-> NewCall]
  /\ probe \in [t : {"url"},
                address : {Address(Path("users", q)) : q \in UrlSearches},
                offset : UrlOffsets,
                out : {<<>>}]

updateUrlOnce ==
  /\ probe.out = <<>>
  /\ probe' = [probe EXCEPT !.out = <<updateUrl(probe.address, probe.offset)>>]
  /\ UNCHANGED <<client, calls>>

updateUrlAgain ==
  /\ Len(probe.out) = 1
  /\ probe' = [probe EXCEPT !.out = Append(@, updateUrl(probe.out[1], probe.offset))]
  /\ UNCHANGED <<client, calls>>

NextUrl == updateUrlOnce \/ updateUrlAgain

SpecUrl == InitUrl /\ [][NextUrl]_vars

(***************************************************************************)
(* Properties.                                                             *)
(***************************************************************************)
Calls == DOMAIN calls

\* what one page contributes: body[key] when a key is given, the body
\* otherwise, a list counting element by element
PageElems(body, key) ==
  LET v == IF Truthy(key) THEN GetProp(body, key.s) ELSE body
  IN IF v.t = "arr" THEN v.a ELSE <<v>>

\* the contributions of the pages, in page order
RECURSIVE PagesElems(_, _)
PagesElems(pages, key) ==
  IF pages = <<>> THEN <<>>
  ELSE PageElems(Head(pages).data, key) \o PagesElems(Tail(pages), key)

\* the pages of a get all answered 200, each but the last with more: true
\* and a limit, the last with no true more
ServedToTheEnd(call) ==
  /\ call.verb = "get"
  /\ call.received # <<>>
  /\ \A i \in 1..Len(call.received) :
       LET r == call.received[i]
       IN /\ r.status = 200
          /\ ~ReadThrows(r.data)
          /\ i < Len(call.received) =>
               /\ GetProp(r.data, "more") = Bool(TRUE)
               /\ GetProp(r.data, "limit") # Undefined
          /\ i = Len(call.received) => ~Truthy(GetProp(r.data, "more"))

\* C1: a get served N pages that all answer 200, the first N-1 with more:
\* true and a limit and the last with more false, has issued exactly N
\* requests and hands the callback, with a null error, the concatenation of
\* the pages' extracted values in page order, nothing dropped, reordered or
\* de-duplicated.
C1_PaginationConcatenates ==
  \A c \in Calls :
    LET call == calls[c]
    IN ServedToTheEnd(call) =>
         /\ Len(call.requests) = Len(call.received)
         /\ call.pc = "done" => call.callbacks # <<>>
         /\ call.callbacks # <<>> =>
              call.callbacks[1] =
                Invocation(Null, Arr(PagesElems(call.received, call.options.key)))

\* two pages served, the second repeating elements of the first
C1_Witness ==
  \E c \in Calls :
    /\ ServedToTheEnd(calls[c])
    /\ calls[c].pc = "done"
    /\ Len(calls[c].received) = 2
    /\ Truthy(calls[c].options.key)
    /\ Len(calls[c].callbacks[1].res.a) = 3

\* the last response of a get has a status other than 200
HttpFailed(call) ==
  /\ call.verb = "get"
  /\ call.received # <<>>
  /\ Last(call.received).status # 200

\* the request in flight of a get failed for good with no response
TransportFailed(call) ==
  /\ call.verb = "get"
  /\ call.err.t = "AxiosError"
  /\ call.err.response = Absent

\* C2: once page k of a get fails, by a transport error or by a status
\* other than 200, the callback receives that error and no result, no
\* invocation carries anything gathered from pages 1..k-1, and the number
\* of requests stays k.
C2_FailFast ==
  \A c \in Calls :
    LET call == calls[c]
    IN (HttpFailed(call) \/ TransportFailed(call)) =>
         /\ Len(call.requests) =
              Len(call.received) + (IF TransportFailed(call) THEN 1 ELSE 0)
         /\ \A i \in 1..Len(call.callbacks) : call.callbacks[i].res = Undefined
         /\ call.pc = "done" =>
              /\ call.callbacks # <<>>
              /\ call.callbacks[1] =
                   Invocation(IF TransportFailed(call) THEN call.err
                              ELSE HttpErrorString(Last(call.received).status,
                                                   Last(call.received).data),
                              Undefined)

\* page 2 answers 404 after page 1 has been gathered
C2_Witness ==
  \E c \in Calls :
    /\ calls[c].pc = "done"
    /\ Len(calls[c].received) = 2
    /\ calls[c].received[2].status = 404
    /\ calls[c].results # <<>>
    /\ Len(calls[c].requests) = 2

\* C3: every get, post, put and delete call invokes its callback exactly
\* once, whatever the server answers and whatever the callback does.
C3_CallbackExactlyOnce ==
  \A c \in Calls :
    /\ Len(calls[c].callbacks) <= 1
    /\ calls[c].pc = "done" => Len(calls[c].callbacks) = 1

\* C4: no invocation of the callback carries both an error and a result:
\* with an error the result is undefined, with a result the error is null.
C4_ErrorXorResult ==
  \A c \in Calls :
    \A i \in 1..Len(calls[c].callbacks) :
      LET inv == calls[c].callbacks[i]
      IN /\ inv.err # Null => inv.res = Undefined
         /\ inv.res # Undefined => inv.err = Null

\* a result delivered, then an error delivered, in one call
C4_Witness ==
  \E c \in Calls :
    /\ Len(calls[c].callbacks) = 2
    /\ calls[c].callbacks[1].res # Undefined
    /\ calls[c].callbacks[2].err # Null

\* a is a number greater than the number b
Greater(a, b) == a.t = "num" /\ b.t = "num" /\ a.n > b.n

\* C5: within one get, the offset strictly increases from each page request
\* to the next, whatever limit the pages report (none, zero or negative
\* included).
C5_OffsetStrictlyIncreases ==
  \A c \in Calls :
    calls[c].verb = "get" =>
      \A i \in 1..(Len(calls[c].requests) - 1) :
        Greater(calls[c].requests[i + 1].offset, calls[c].requests[i].offset)

\* C5 as amended: within one get, the offset of each page request is the
\* offset of the request before it plus the limit that page reported, so it
\* strictly increases wherever the reported limit is positive; a zero
\* limit repeats the offset, a negative limit lowers it and a missing
\* limit makes it NaN.
C5_OffsetAdvancesByLimit ==
  \A c \in Calls :
    calls[c].verb = "get" =>
      /\ calls[c].requests # <<>> => calls[c].requests[1].offset = Num(0)
      /\ \A i \in 1..(Len(calls[c].requests) - 1) :
           LET prev == calls[c].requests[i].offset
               next == calls[c].requests[i + 1].offset
               limit == GetProp(calls[c].received[i].data, "limit")
           IN /\ (prev.t = "num" /\ limit.t = "num") =>
                   /\ next = Num(prev.n + limit.n)
                   /\ limit.n > 0 => Greater(next, prev)
                   /\ limit.n = 0 => next = prev
                   /\ limit.n < 0 => Greater(prev, next)
              /\ (prev = NaN \/ limit = Undefined) => next = NaN

\* a second page request after a page that reported the limit 2
C5_Witness ==
  \E c \in Calls :
    /\ calls[c].verb = "get"
    /\ Len(calls[c].requests) = 2
    /\ GetProp(calls[c].received[1].data, "limit") = Num(2)
    /\ calls[c].requests[1].offset = Num(0)
    /\ calls[c].requests[2].offset = Num(2)

\* the first response of a get is a 200 whose body has a place for fields
\* and holds neither more nor limit
SinglePageAnswer(call) ==
  /\ call.verb = "get"
  /\ call.received # <<>>
  /\ call.received[1].status = 200
  /\ ~ReadThrows(call.received[1].data)
  /\ GetProp(call.received[1].data, "more") = Undefined
  /\ GetProp(call.received[1].data, "limit") = Undefined

Authorization(request) == GetProp(Obj(request.headers), "Authorization")

\* the token the claim names: the call's when given, else the client's
ClaimedToken(call) ==
  IF Truthy(call.passed.token) THEN call.passed.token ELSE client.token

NoToken(call) == ~Truthy(call.passed.token) /\ ~Truthy(client.token)

\* the call passes the checks made before the token check
PassesEarlierChecks(call) ==
  /\ Truthy(call.passed.path)
  /\ call.verb \in {"post", "put"} => Truthy(call.passed.body)

\* the caller's headers name Authorization
OverridesAuthorization(call) ==
  /\ call.passed.headers # Absent
  /\ GetProp(call.passed.headers, "Authorization") # Undefined

\* C7: for every verb the Authorization header carries the per-call token
\* when one is given, otherwise the client's default token; with neither,
\* the callback of a call that has its path and body receives 'Must
\* provide PagerDuty access token' and no request is issued.
C7_TokenResolution ==
  \A c \in Calls :
    LET call == calls[c]
    IN call.verb # "none" =>
         /\ \A i \in 1..Len(call.requests) :
              Authorization(call.requests[i]) =
                Str("Token token=" \o ClaimedToken(call).s)
         /\ NoToken(call) =>
              /\ call.requests = <<>>
              /\ PassesEarlierChecks(call) =>
                   /\ call.callbacks # <<>>
                   /\ call.callbacks[1] =
                        Invocation(Error("Must provide PagerDuty access token"),
                                   Undefined)

\* C7 as amended: the Authorization header sent is 'Token token=<t>', t
\* being the per-call token when a non-empty one is given and the client's
\* default token otherwise, except that a post or put whose options.headers
\* names Authorization sends the caller's value; with neither token no
\* request is issued and the callback receives a local error, which is
\* 'Must provide PagerDuty access token' when the path (and for post and
\* put the body) is present.
C7_TokenResolutionAmended ==
  \A c \in Calls :
    LET call == calls[c]
    IN call.verb # "none" =>
         /\ \A i \in 1..Len(call.requests) :
              Authorization(call.requests[i]) =
                IF call.verb \in {"post", "put"} /\ OverridesAuthorization(call)
                THEN GetProp(call.passed.headers, "Authorization")
                ELSE Str("Token token=" \o ClaimedToken(call).s)
         /\ NoToken(call) =>
              /\ call.requests = <<>>
              /\ call.pc = "done"
              /\ Len(call.callbacks) = 1
              /\ call.callbacks[1].err.t = "Error"
              /\ call.callbacks[1].res = Undefined
              /\ PassesEarlierChecks(call) =>
                   call.callbacks[1].err = Error("Must provide PagerDuty access token")

\* a request carrying the call's token although the client has its own
C7_Witness ==
  \E c \in Calls :
    /\ calls[c].requests # <<>>
    /\ calls[c].passed.token = Str("tokB")
    /\ client.token = Str("tokA")
    /\ Authorization(calls[c].requests[1]) = Str("Token token=tokB")

\* the call has no path, or is a post or put with no body
FailsLocalCheck(call) ==
  /\ call.verb # "none"
  /\ \/ call.passed.path \in {Absent, Str("")}
     \/ call.verb \in {"post", "put"} /\ call.passed.body = Absent

\* C8: a call with an empty or missing path, or a post or put with no
\* body, hands the callback a local error and issues no request.
C8_LocalChecks ==
  \A c \in Calls :
    LET call == calls[c]
    IN FailsLocalCheck(call) =>
         /\ call.requests = <<>>
         /\ call.pc = "done"
         /\ Len(call.callbacks) = 1
         /\ call.callbacks[1].err.t = "Error"
         /\ call.callbacks[1].res = Undefined

\* a put with a path and a token but no body
C8_Witness ==
  \E c \in Calls :
    /\ calls[c].verb = "put"
    /\ Truthy(calls[c].passed.path)
    /\ calls[c].passed.token = Str("tokB")
    /\ calls[c].passed.body = Absent
    /\ calls[c].callbacks = <<Invocation(Error("Must provide options.body"), Undefined)>>

\* the one status each verb takes for success
ExpectedStatus(verb) ==
  CASE verb = "get" -> 200
    [] verb = "post" -> 201
    [] verb = "put" -> 200
    [] verb = "delete" -> 204

\* C9: get succeeds on 200 only, post on 201, put on 200, delete on 204:
\* a result is delivered only after that status, the response of a post,
\* put or delete with that status is delivered as a result, and any other
\* status received, 2xx or not, is delivered as an error.
C9_StatusStrictness ==
  \A c \in Calls :
    LET call == calls[c]
    IN call.verb # "none" =>
         /\ \A i \in 1..Len(call.callbacks) :
              call.callbacks[i].err = Null =>
                /\ call.received # <<>>
                /\ Last(call.received).status = ExpectedStatus(call.verb)
         /\ (call.pc = "done" /\ call.received # <<>>) =>
              IF Last(call.received).status # ExpectedStatus(call.verb)
              THEN /\ call.callbacks # <<>>
                   /\ \A i \in 1..Len(call.callbacks) :
                        /\ call.callbacks[i].err # Null
                        /\ call.callbacks[i].res = Undefined
              ELSE call.verb # "get" =>
                     call.callbacks[1] =
                       Invocation(Null, Obj(<< <<"body", Last(call.received).data>> >>))

\* a post answered 200 has ended in an error
C9_Witness ==
  \E c \in Calls :
    /\ calls[c].verb = "post"
    /\ calls[c].pc = "done"
    /\ calls[c].received # <<>>
    /\ Last(calls[c].received).status = 200
    /\ calls[c].callbacks[1].err # Null

\* the JSON text of the bodies a server sends, written out
BodyJson(data) ==
  CASE data = NotFound -> "{\"error\":\"Not Found\"}"
    [] data = LastPage -> "{\"users\":[\"b\"],\"more\":false}"
    [] data = SinglePage -> "{\"users\":\"c\"}"
    [] data = Null -> "null"
    [] data = Str("") -> "\"\""
    [] data = Arr(<<Str("a"), Str("a")>>) -> "[\"a\",\"a\"]"
    [] data = PageMore(Absent) -> "{\"users\":[\"a\",\"b\"],\"more\":true}"
    [] data = PageMore(Num(0)) -> "{\"users\":[\"a\",\"b\"],\"more\":true,\"limit\":0}"
    [] data = PageMore(Num(-1)) -> "{\"users\":[\"a\",\"b\"],\"more\":true,\"limit\":-1}"
    [] data = PageMore(Num(2)) -> "{\"users\":[\"a\",\"b\"],\"more\":true,\"limit\":2}"

StatusText(status) ==
  CASE status = 200 -> "200"
    [] status = 201 -> "201"
    [] status = 204 -> "204"
    [] status = 404 -> "404"
    [] status = 500 -> "500"

\* the body of the 422 answer of the test server
InvalidServiceId ==
  Obj(<< <<"errors", Arr(<<Obj(<< <<"error", Str("invalid service id")>> >>)>>)>> >>)

\* C10: for every verb, a response whose status is not the verb's expected
\* one is delivered as the string 'HTTP status code <code>: <body>', code
\* being the status received and body the JSON text of the response body,
\* whatever the shape of the body (object, list, string, null).
C10_HttpErrorString ==
  /\ HttpErrorString(422, InvalidServiceId) =
       Str("HTTP status code 422: {\"errors\":[{\"error\":\"invalid service id\"}]}")
  /\ \A c \in Calls :
       LET call == calls[c]
       IN (/\ call.verb # "none"
           /\ call.received # <<>>
           /\ Last(call.received).status # ExpectedStatus(call.verb)
           /\ call.pc = "done") =>
            /\ call.callbacks # <<>>
            /\ call.callbacks[1] =
                 Invocation(Str("HTTP status code "
                                \o StatusText(Last(call.received).status) \o ": "
                                \o BodyJson(Last(call.received).data)),
                            Undefined)

\* a delete answered 404 with an object, delivered as the error string
C10_Witness ==
  \E c \in Calls :
    /\ calls[c].verb = "delete"
    /\ calls[c].pc = "done"
    /\ calls[c].received = <<[status |-> 404, data |-> NotFound]>>
    /\ calls[c].callbacks[1].err = Str("HTTP status code 404: {\"error\":\"Not Found\"}")

\* the names of a header list
HeaderNames(headers) == {headers[i][1] : i \in 1..Len(headers)}

\* the headers the caller passes, as a list
CallerHeaders(call) ==
  IF call.passed.headers = Absent THEN <<>> ELSE call.passed.headers.o

\* C11: the headers of a post or put request are the Accept and
\* Authorization headers merged with the caller's headers: a caller header
\* named like a mandatory one replaces its value, any other caller header
\* is added, and a mandatory header the caller does not name is sent with
\* its mandatory value.
C11_HeaderMerge ==
  \A c \in Calls :
    LET call == calls[c]
    IN call.verb \in {"post", "put"} =>
         \A i \in 1..Len(call.requests) :
           LET sent == call.requests[i].headers
               given == CallerHeaders(call)
           IN /\ HeaderNames(sent) = {"Accept", "Authorization"} \cup HeaderNames(given)
              /\ Len(sent) = Cardinality(HeaderNames(sent))
              /\ \A j \in 1..Len(given) :
                   GetProp(Obj(sent), given[j][1]) = given[j][2]
              /\ "Accept" \notin HeaderNames(given) =>
                   GetProp(Obj(sent), "Accept") =
                     Str("application/vnd.pagerduty+json;version=2")
              /\ "Authorization" \notin HeaderNames(given) =>
                   GetProp(Obj(sent), "Authorization") =
                     Str("Token token=" \o call.options.token.s)

\* a post sent with the caller's Accept in place of the mandatory one, the
\* caller's From added and the token header kept
C11_Witness ==
  \E c \in Calls :
    /\ calls[c].verb = "post"
    /\ calls[c].requests # <<>>
    /\ calls[c].passed.token = Absent
    /\ calls[c].requests[1].headers =
         << <<"Accept", Str("text/plain")>>,
            <<"Authorization", Str("Token token=tokA")>>,
            <<"From", Str("x@y")>> >>

\* updateUrl has returned
Updated == probe.t = "url" /\ probe.out # <<>>

\* the decoded keys of a query, in the order written
PartKeys(search) == [i \in 1..Len(search) |-> QsUnescape(search[i].k)]

\* the keys among offset, total, limit a query lacks, in that order
Missing(search) ==
  SelectSeq(<<"offset", "total", "limit">>,
            LAMBDA k : \A i \in 1..Len(search) : PartKeys(search)[i] # k)

\* the query updateUrl returned is the query given, key by key, followed by
\* the missing keys in the order offset, total, limit with the values
\* <offset>, true and 100
KeysThenDefaults(given, offset, returned) ==
  LET missing == Missing(given)
  IN /\ Len(returned) = Len(given) + Len(missing)
     /\ \A i \in 1..Len(given) : PartKeys(returned)[i] = PartKeys(given)[i]
     /\ \A j \in 1..Len(missing) :
          LET part == returned[Len(given) + j]
          IN /\ part.k = missing[j]
             /\ part.eq
             /\ missing[j] = "total" => part.v = "true"
             /\ missing[j] = "limit" => part.v = "100"
             /\ missing[j] = "offset" /\ offset.t = "num" => part.v = ToString(offset.n)

\* C12 as stated: updateUrl returns the same URL with the original query
\* keys first in their original order, followed by those of offset=<offset>,
\* total=true, limit=100 the query lacks, in that order.
C12_KeysFirstThenDefaults ==
  Updated =>
    /\ probe.out[1].base = probe.address.base
    /\ probe.out[1].pathname = probe.address.pathname
    /\ KeysThenDefaults(probe.address.search, probe.offset, probe.out[1].search)

\* no key of the query is an array index
NoIndexKey(search) ==
  \A i \in 1..Len(search) : IndexRank(PartKeys(search)[i], 1) = 0

\* the parts of one key stand together
Grouped(search) ==
  \A i, j \in 1..Len(search) :
    i < j /\ PartKeys(search)[i] = PartKeys(search)[j] =>
      \A m \in i..j : PartKeys(search)[m] = PartKeys(search)[i]

\* C12 amended: when no key of the query is an array index and the parts of
\* a repeated key stand together, updateUrl returns the same URL with the
\* original keys first in their original order, followed by the missing ones
\* of offset, total=true, limit=100 in that order; the offset is written in
\* decimal when it is a number and as an empty value when it is NaN or null.
C12_KeysFirstThenDefaultsAmended ==
  Updated /\ NoIndexKey(probe.address.search) /\ Grouped(probe.address.search) =>
    /\ probe.out[1].base = probe.address.base
    /\ probe.out[1].pathname = probe.address.pathname
    /\ KeysThenDefaults(probe.address.search, probe.offset, probe.out[1].search)
    /\ \A i \in 1..Len(probe.out[1].search) :
         LET part == probe.out[1].search[i]
         IN i > Len(probe.address.search) /\ part.k = "offset"
            /\ probe.offset.t # "num" => part.v = ""

\* the first case of the tests: a query with none of the three keys
C12_Witness ==
  /\ Updated
  /\ probe.address.search = <<Param("query", "Dev%20Null")>>
  /\ probe.offset = Num(10)
  /\ UrlText(probe.out[1]) =
       "https://api.pagerduty.com/users?query=Dev%20Null&offset=10&total=true&limit=100"

\* the value list querystring.parse holds for a key, <<>> for a key it lacks
ValuesOf(qs, k) ==
  IF PropIndex(qs, k, 1) = 0 THEN <<>> ELSE qs[PropIndex(qs, k, 1)][2]

\* C13: updateUrl never changes the value of an offset, total or limit key
\* the query already has, whatever the value (false and the empty value
\* included), never changes any other key of the query, and never changes
\* the scheme, host and path of the URL.  Values are compared as
\* querystring.parse reads them.
C13_PresentKeysKept ==
  Updated =>
    LET given == QsParse(probe.address.search)
        returned == QsParse(probe.out[1].search)
    IN /\ probe.out[1].base = probe.address.base
       /\ probe.out[1].pathname = probe.address.pathname
       /\ \A i \in 1..Len(given) :
            ValuesOf(returned, given[i][1]) = given[i][2]
       /\ \A j \in 1..Len(returned) :
            \/ ValuesOf(given, returned[j][1]) # <<>>
            \/ returned[j][1] \in {"offset", "total", "limit"}

\* a query that has total=false and an empty limit keeps both and gains
\* the offset alone
C13_Witness ==
  /\ Updated
  /\ probe.address.search = <<Param("total", "false"), Param("limit", ""), Param("b", "a+b")>>
  /\ probe.offset = Num(10)
  /\ UrlText(probe.out[1]) =
       "https://api.pagerduty.com/users?total=false&limit=&b=a%20b&offset=10"

\* C14: updateUrl applied to its own result with the same offset returns
\* that result.
C14_Idempotent ==
  probe.t = "url" /\ Len(probe.out) = 2 =>
    /\ probe.out[2] = probe.out[1]
    /\ UrlText(probe.out[2]) = UrlText(probe.out[1])

\* updateUrl applied twice to a query it had to complete and to reorder
C14_Witness ==
  /\ probe.t = "url"
  /\ Len(probe.out) = 2
  /\ probe.address.search = <<Param("b", "a+b"), Param("2", "x"), Flag("c")>>
  /\ probe.offset = NaN
  /\ UrlText(probe.out[2]) =
       "https://api.pagerduty.com/users?2=x&b=a%20b&c=&offset=&total=true&limit=100"

\* the keys of the query of a request
RequestKeys(request) ==
  {PartKeys(request.url.search)[i] : i \in 1..Len(request.url.search)}

\* C15: every request of a get, on every page, has the keys offset, total
\* and limit in its query; the first request of a get whose path names no
\* offset has offset=0; post, put and delete request the caller's path as
\* given, with no key added.
C15_GetQueryDefaults ==
  \A c \in Calls :
    LET call == calls[c]
    IN /\ call.verb = "get" =>
            /\ \A i \in 1..Len(call.requests) :
                 {"offset", "total", "limit"} \subseteq RequestKeys(call.requests[i])
            /\ (/\ call.requests # <<>>
                /\ \A i \in 1..Len(call.passed.path.search) :
                     PartKeys(call.passed.path.search)[i] # "offset") =>
                 \E j \in 1..Len(call.requests[1].url.search) :
                   call.requests[1].url.search[j] = Param("offset", "0")
       /\ call.verb \in {"post", "put", "delete"} =>
            \A i \in 1..Len(call.requests) :
              call.requests[i].url = Address(call.passed.path)

\* a get of the bare path users on its second page
C15_Witness ==
  \E c \in Calls :
    /\ calls[c].verb = "get"
    /\ calls[c].passed.path = Path("users", <<>>)
    /\ Len(calls[c].requests) = 2
    /\ UrlText(calls[c].requests[1].url) =
         "https://api.pagerduty.com/users?offset=0&total=true&limit=100"
    /\ UrlText(calls[c].requests[2].url) =
         "https://api.pagerduty.com/users?offset=2&total=true&limit=100"

TimedOut(call) ==
  /\ call.verb = "get"
  /\ call.err = AxiosError(TimeoutCode, Absent)

\* C17: every page request of a get is handed the timeout in full, and a
\* page that times out ends the call: the callback is invoked once, with
\* the error object carrying the timeout code and no result, nothing of the
\* pages gathered before is delivered and no further page is requested.
C17_TimeoutEndsGet ==
  \A c \in Calls :
    LET call == calls[c]
    IN call.verb = "get" =>
         /\ \A i \in 1..Len(call.requests) :
              call.requests[i].timeout = call.options.timeout
         /\ TimedOut(call) =>
              /\ Len(call.requests) = Len(call.received) + 1
              /\ \A i \in 1..Len(call.callbacks) : call.callbacks[i].res = Undefined
              /\ call.pc = "done" =>
                   /\ Len(call.callbacks) = 1
                   /\ call.callbacks[1].err.t = "AxiosError"
                   /\ call.callbacks[1].err.code = TimeoutCode

\* page 2 times out after page 1 has been gathered
C17_Witness ==
  \E c \in Calls :
    /\ TimedOut(calls[c])
    /\ calls[c].pc = "done"
    /\ calls[c].passed.timeout = Num(1)
    /\ Len(calls[c].received) = 1
    /\ calls[c].results # <<>>
    /\ Len(calls[c].requests) = 2
    /\ calls[c].callbacks = <<Invocation(AxiosError(TimeoutCode, Absent), Undefined)>>

\* what a call run alone hands its callback first, from its own options and
\* the responses to its own requests: the transport error, the HTTP error
\* string of the last response, or the result of its verb
AloneOutcome(call) ==
  IF call.err # Absent /\ call.err.t = "AxiosError" /\ call.err.response = Absent
  THEN Invocation(call.err, Undefined)
  ELSE LET last == Last(call.received)
       IN IF last.status # ExpectedStatus(call.verb)
          THEN Invocation(HttpErrorString(last.status, last.data), Undefined)
          ELSE IF call.verb = "get"
          THEN Invocation(Null, Arr(PagesElems(call.received, call.passed.key)))
          ELSE Invocation(Null, Obj(<< <<"body", last.data>> >>))

\* the sum of the limits the pages reported
RECURSIVE SumOfLimits(_)
SumOfLimits(pages) ==
  IF pages = <<>> THEN 0
  ELSE GetProp(Head(pages).data, "limit").n + SumOfLimits(Tail(pages))

\* every call is what its own options and its own responses make it, and
\* the client is as constructed
EachCallItsOwn ==
  /\ client = constructor(SharedClientOptions)
  /\ \A c \in Calls :
       LET call == calls[c]
       IN /\ \A i \in 1..Len(call.requests) :
               /\ Authorization(call.requests[i]) =
                    Str("Token token=" \o (IF Truthy(call.passed.token)
                                           THEN call.passed.token.s
                                           ELSE SharedClientOptions.pagerDutyToken.s))
               /\ call.requests[i].timeout =
                    IF call.passed.timeout # Absent THEN call.passed.timeout
                    ELSE Num(10000)
          /\ call.verb = "get" /\ call.pc = "inflight" =>
               /\ call.results = PagesElems(call.received, call.passed.key)
               /\ call.offset = Num(SumOfLimits(call.received))
               /\ Last(call.requests).offset = call.offset
          /\ call.pc = "done" =>
               /\ call.callbacks # <<>>
               /\ call.callbacks[1] = AloneOutcome(call)

\* a step belongs to one call and leaves the other call and the client as
\* they are
OneCallSteps ==
  /\ client' = client
  /\ \E c \in Calls : \A d \in Calls \ {c} : calls'[d] = calls[d]

\* C18: calls made side by side on one client do not interfere: under every
\* interleaving each call hands its callback what its own options and the
\* responses to its own requests determine, each get keeps an offset and an
\* accumulator of its own, every step touches one call only, and the
\* client's token and timeout stay as constructed.
C18_NoInterference == []EachCallItsOwn /\ [][OneCallSteps]_vars

\* two gets in flight on their second pages at once, one under its own
\* token and one under the client's
C18_Witness ==
  /\ calls[1].verb = "get" /\ calls[1].pc = "inflight"
  /\ calls[2].verb = "get" /\ calls[2].pc = "inflight"
  /\ Len(calls[1].requests) = 2 /\ Len(calls[2].requests) = 2
  /\ calls[1].passed.token = Str("tokB")
  /\ calls[2].passed.token = Absent
  /\ Authorization(calls[1].requests[2]) = Str("Token token=tokB")
  /\ Authorization(calls[2].requests[2]) = Str("Token token=tokA")

\* an invocation that reports success
Succeeded(invocation) == invocation.err = Null

\* C19: on success post, put and delete hand the callback an object whose
\* body field is the body of the response to the one request made, and get
\* hands it an array; post, put and delete make one request per call and
\* make no second one whatever the response says.
C19_SuccessShapes ==
  \A c \in Calls :
    LET call == calls[c]
    IN /\ call.verb \in {"post", "put", "delete"} =>
            /\ Len(call.requests) <= 1
            /\ Len(call.received) <= 1
            /\ call.pc \in {"inflight", "resolved", "rejected"} => Len(call.requests) = 1
            /\ \A i \in 1..Len(call.callbacks) :
                 Succeeded(call.callbacks[i]) =>
                   /\ Len(call.requests) = 1
                   /\ call.callbacks[i].res = Obj(<< <<"body", call.received[1].data>> >>)
       /\ call.verb = "get" =>
            \A i \in 1..Len(call.callbacks) :
              Succeeded(call.callbacks[i]) => call.callbacks[i].res.t = "arr"

\* a put answered 200 with a body that says more: true: the body is handed
\* over as it is and no second request is made
C19_Witness ==
  \E c \in Calls :
    /\ calls[c].verb = "put"
    /\ calls[c].pc = "done"
    /\ Len(calls[c].requests) = 1
    /\ calls[c].callbacks = <<Invocation(Null, Obj(<< <<"body", PageMore(Num(2))>> >>))>>

\* C20: within one get at most one request is in flight: the request for
\* page k+1 exists only once the response to page k is in and its value is
\* in the accumulator.
C20_OneRequestInFlight ==
  \A c \in Calls :
    LET call == calls[c]
    IN call.verb = "get" =>
         /\ Len(call.requests) <= Len(call.received) + 1
         /\ Len(call.requests) = Len(call.received) + 1 =>
              \/ call.pc = "inflight"
              \/ TransportFailed(call)
         /\ \A k \in 1..(Len(call.requests) - 1) :
              /\ call.received[k].status = 200
              /\ SubSeq(call.results, 1,
                        Len(PagesElems(SubSeq(call.received, 1, k), call.options.key))) =
                   PagesElems(SubSeq(call.received, 1, k), call.options.key)

\* the second request of a get in flight, the first page already gathered
C20_Witness ==
  \E c \in Calls :
    /\ calls[c].verb = "get"
    /\ calls[c].pc = "inflight"
    /\ Len(calls[c].requests) = 2
    /\ Len(calls[c].received) = 1
    /\ calls[c].results = <<Str("a"), Str("b")>>

\* C24 as stated: no request is sent again on account of the status of a
\* response: for every verb and every status one attempt is made and the
\* HTTP error is delivered.
C24_StatusNeverRetried ==
  \A c \in Calls : calls[c].resent = <<>>

\* the promise of the request rejected with a response of this status
RejectedWith(call, status) ==
  /\ call.err # Absent
  /\ call.err.t = "AxiosError"
  /\ call.err.response # Absent
  /\ call.err.response.status = status

\* C24 amended: a request is sent again on account of a status only when
\* the status is 5xx and the verb is get, put or delete, and then at most 3
\* times, the HTTP error of such a status being delivered after the 4th
\* attempt; a post, and any verb answered with another unexpected status,
\* has the HTTP error delivered with no attempt after that response.
C24_StatusRetriedOn5xxOnly ==
  \A c \in Calls :
    LET call == calls[c]
    IN /\ Len(call.resent) <= 3
       /\ \A i \in 1..Len(call.resent) :
            /\ call.resent[i] >= 500 /\ call.resent[i] <= 599
            /\ call.verb \in {"get", "put", "delete"}
       /\ \A s \in {r.status : r \in RetriedResponses} :
            RejectedWith(call, s) =>
              /\ (s >= 500 /\ call.verb \in {"get", "put", "delete"}) => call.attempts = 4
              /\ (s < 500 \/ call.verb = "post") /\ call.failures = 0 => call.attempts = 1
              /\ call.pc = "done" =>
                   call.callbacks[1] =
                     Invocation(HttpErrorString(s, call.err.response.data), Undefined)

\* a get answered 500, 503, 500 and 500: the error of the last is delivered
\* after four attempts of the one request
C24_Witness ==
  \E c \in Calls :
    /\ calls[c].verb = "get"
    /\ calls[c].pc = "done"
    /\ calls[c].resent = <<500, 503, 500>>
    /\ calls[c].attempts = 4
    /\ Len(calls[c].requests) = 1
    /\ calls[c].callbacks =
         <<Invocation(Str("HTTP status code 500: \"\""), Undefined)>>

\* no more than four attempts of a request, and a request that failed for
\* good with no response hands the callback that failure
AtMostFourAttempts ==
  \A c \in Calls :
    LET call == calls[c]
    IN /\ call.attempts <= 4
       /\ (call.err # Absent /\ call.err.t = "AxiosError" /\ call.err.response = Absent) =>
            /\ retryCondition(call.err.code) => call.attempts = 4
            /\ \A i \in 1..Len(call.callbacks) : call.callbacks[i].res = Undefined
            /\ call.pc = "done" => call.callbacks = <<Invocation(call.err, Undefined)>>

\* an attempt that fails and is sent again changes nothing but the counts
\* of attempts: the offset, the accumulator, the requests and the
\* invocations of the callback stay
RetriesUnseen ==
  \A c \in Calls :
    calls'[c].attempts > calls[c].attempts /\ calls[c].attempts > 0 =>
      /\ calls'[c].pc = "inflight" /\ calls[c].pc = "inflight"
      /\ calls'[c].offset = calls[c].offset
      /\ calls'[c].results = calls[c].results
      /\ calls'[c].requests = calls[c].requests
      /\ calls'[c].received = calls[c].received
      /\ calls'[c].callbacks = calls[c].callbacks

\* C25: a request that keeps failing with a transient transport failure is
\* attempted at most 4 times and then hands the callback the transport
\* error; an attempt that failed and was sent again neither advances the
\* offset nor adds to the accumulator nor invokes the callback.
C25_RetriesCappedAndUnseen == []AtMostFourAttempts /\ [][RetriesUnseen]_vars

\* the second page of a get fails four times with a reset connection
C25_Witness ==
  \E c \in Calls :
    /\ calls[c].verb = "get"
    /\ calls[c].pc = "done"
    /\ Len(calls[c].requests) = 2
    /\ calls[c].attempts = 4
    /\ calls[c].failures = 4
    /\ calls[c].results = <<Str("a"), Str("b")>>
    /\ calls[c].callbacks = <<Invocation(AxiosError("ECONNRESET", Absent), Undefined)>>

\* the pages up to k all report a limit that is a number
LimitsReported(call, k) ==
  \A j \in 1..k : GetProp(call.received[j].data, "limit").t = "num"

\* C21: the cursor of a get starts at 0 and after each page answered 200
\* with more: true it advances by the limit that page reports, not by the
\* limit the request asked for: the offset handed to updateUrl for page k+1
\* is the sum of the limits reported by pages 1..k.
C21_CursorIsSumOfLimits ==
  \A c \in Calls :
    LET call == calls[c]
    IN call.verb = "get" /\ call.requests # <<>> =>
         /\ call.requests[1].offset = Num(0)
         /\ \A k \in 1..(Len(call.requests) - 1) :
              LimitsReported(call, k) =>
                call.requests[k + 1].offset =
                  Num(SumOfLimits(SubSeq(call.received, 1, k)))

\* pages reporting the limits 2, 3 and 2 to requests that each ask for a
\* limit of 100: the fourth request is made at the cursor 7
C21_Witness ==
  \E c \in Calls :
    /\ calls[c].verb = "get"
    /\ Len(calls[c].requests) = 4
    /\ calls[c].received[1].data = PageMore(Num(2))
    /\ calls[c].received[2].data = PageMore(Num(3))
    /\ calls[c].received[3].data = NestedPage
    /\ calls[c].requests[4].offset = Num(7)
    /\ UrlText(calls[c].requests[4].url) =
         "https://api.pagerduty.com/users?offset=7&total=true&limit=100"

\* the .then of a get with a key takes up a page answered 200
KeyedPageTaken(c) ==
  /\ calls[c].verb = "get"
  /\ calls[c].pc = "resolved"
  /\ calls[c].res.status = 200
  /\ Truthy(calls[c].options.key)
  /\ calls'[c] # calls[c]

\* the page adds body[key] to the accumulator: element by element when it
\* is a list, the lists among the elements staying lists, and as one
\* element when it is anything else
KeyedPageAppends ==
  \A c \in Calls :
    KeyedPageTaken(c) =>
      LET v == GetProp(calls[c].res.data, calls[c].options.key.s)
      IN /\ v.t = "arr" =>
              /\ Len(calls'[c].results) = Len(calls[c].results) + Len(v.a)
              /\ \A i \in 1..Len(v.a) :
                   calls'[c].results[Len(calls[c].results) + i] = v.a[i]
         /\ v.t # "arr" =>
              /\ Len(calls'[c].results) = Len(calls[c].results) + 1
              /\ Last(calls'[c].results) = v
         /\ SubSeq(calls'[c].results, 1, Len(calls[c].results)) = calls[c].results

\* C22: when get is called with a key, each page contributes body[key]: the
\* elements of a list are appended one by one, flattened by one level and
\* no more, and a value that is no list is appended as one element.
C22_KeyedPagesFlattenOnce == [][KeyedPageAppends]_vars

\* a page whose list holds a list, then a page whose value is no list: the
\* inner list is one element of the result and so is the value
C22_Witness ==
  \E c \in Calls :
    /\ calls[c].verb = "get"
    /\ calls[c].pc = "done"
    /\ calls[c].received = <<[status |-> 200, data |-> NestedPage],
                             [status |-> 200, data |-> SinglePage]>>
    /\ calls[c].callbacks =
         <<Invocation(Null, Arr(<<Arr(<<Str("a")>>), Str("b"), Str("c")>>))>>

\* a get without a key whose pages have all been taken up
UnkeyedPagesTaken(call) ==
  /\ call.verb = "get"
  /\ ~Truthy(call.options.key)
  /\ call.pc \in {"inflight", "done"}
  /\ \A i \in 1..Len(call.received) : call.received[i].status = 200

\* C23 as stated: when get is called without a key, every page contributes
\* one element, the whole body of the page, whatever the shape of the body,
\* and the result is as long as the pages are many.
C23_UnkeyedOnePerPage ==
  \A c \in Calls :
    LET call == calls[c]
    IN UnkeyedPagesTaken(call) =>
         /\ Len(call.results) = Len(call.received)
         /\ \A i \in 1..Len(call.received) : call.results[i] = call.received[i].data

\* C23 amended: when get is called without a key, a page whose body is not
\* a list contributes one element, the whole body, and a page whose body is
\* a list contributes the elements of that list one by one; the result is
\* as long as the pages are many when no body is a list.
C23_UnkeyedOnePerObject ==
  \A c \in Calls :
    LET call == calls[c]
    IN UnkeyedPagesTaken(call) =>
         /\ call.results = PagesElems(call.received, Absent)
         /\ (\A i \in 1..Len(call.received) : call.received[i].data.t # "arr") =>
              /\ Len(call.results) = Len(call.received)
              /\ \A i \in 1..Len(call.received) : call.results[i] = call.received[i].data

\* two object pages and then a body that is a list of two: four elements
\* from three pages
C23_Witness ==
  \E c \in Calls :
    /\ calls[c].verb = "get"
    /\ calls[c].pc = "done"
    /\ calls[c].passed.key = Absent
    /\ Len(calls[c].received) = 3
    /\ calls[c].callbacks =
         <<Invocation(Null, Arr(<<PageMore(Num(2)), PageMore(Num(3)), Str("a"), Str("a")>>))>>

\* a page answered 200 that says there is more
SaysMore(page) == page.status = 200 /\ Truthy(GetProp(page.data, "more"))

\* C26: the paging of a get has no cap: however many pages have answered
\* 200 with more: true, once the last of them is taken up there is one
\* request more than pages and the callback has not been invoked; and the
\* callback is invoked only after a page that fails or does not say more.
C26_NoIterationCap ==
  \A c \in Calls :
    LET call == calls[c]
    IN call.verb = "get" /\ call.received # <<>> =>
         /\ ((\A i \in 1..Len(call.received) : SaysMore(call.received[i]))
             /\ call.pc # "resolved") =>
              /\ call.pc = "inflight"
              /\ Len(call.requests) = Len(call.received) + 1
              /\ call.callbacks = <<>>
         /\ call.callbacks # <<>> =>
              /\ ~SaysMore(Last(call.received))
              /\ \A i \in 1..(Len(call.received) - 1) : SaysMore(call.received[i])

\* three pages that all say more, a fourth request in flight and the
\* callback still waiting
C26_Witness ==
  \E c \in Calls :
    /\ calls[c].verb = "get"
    /\ calls[c].pc = "inflight"
    /\ Len(calls[c].received) = 3
    /\ \A i \in 1..3 : SaysMore(calls[c].received[i])
    /\ Len(calls[c].requests) = 4
    /\ calls[c].callbacks = <<>>

\* the parts of a query under the key offset
OffsetParts(search) == SelectSeq(search, LAMBDA part : QsUnescape(part.k) = "offset")

\* C27: when the path of a get has an offset key, every page request of the
\* call carries that offset as the caller wrote it: the cursor advances
\* from page to page and never reaches the URL, so the server is asked for
\* the same offset each time.
C27_CallerOffsetOnEveryPage ==
  \A c \in Calls :
    LET call == calls[c]
    IN (call.verb = "get" /\ call.requests # <<>>
        /\ OffsetParts(call.passed.path.search) # <<>>) =>
         \A i \in 1..Len(call.requests) :
           /\ OffsetParts(call.requests[i].url.search) =
                OffsetParts(call.passed.path.search)
           /\ call.requests[i].url = call.requests[1].url

\* a cursor at 0, 2 and 5 behind three requests that all ask for offset=5
C27_Witness ==
  \E c \in Calls :
    /\ calls[c].verb = "get"
    /\ calls[c].passed.path = Path("users", <<Param("offset", "5")>>)
    /\ Len(calls[c].requests) = 3
    /\ calls[c].requests[2].offset = Num(2)
    /\ calls[c].requests[3].offset = Num(5)
    /\ \A i \in 1..3 :
         UrlText(calls[c].requests[i].url) =
           "https://api.pagerduty.com/users?offset=5&total=true&limit=100"

\* the call passed the checks of its verb
Passed(call) == call.requests # <<>>

\* the call failed a check of its verb
Refused(call) == call.pc = "done" /\ call.requests = <<>>

\* the options object after a call that passes, made with these options on
\* a client constructed with those
Written(options, clientOptions) ==
  [options EXCEPT
     !.token = IF Truthy(@) THEN @ ELSE clientOptions.pagerDutyToken,
     !.timeout = IF @ # Absent THEN @ ELSE clientOptions.timeout]

\* C28: a call that passes the checks of its verb leaves the resolved token
\* in options.token and the resolved timeout in options.timeout, and
\* nothing else of the object changed; a later call handing that object to
\* a client with other defaults sends the values the first client wrote; a
\* call that fails a check leaves the object as it was.
C28_OptionsWrittenAndReused ==
  /\ Passed(calls[1]) =>
       calls[1].options = Written(calls[1].passed, FirstClientOptions)
  /\ Refused(calls[1]) => calls[1].options = calls[1].passed
  /\ Passed(calls[2]) =>
       /\ calls[2].passed = calls[1].options
       /\ Passed(calls[1]) =>
            /\ Authorization(calls[2].requests[1]) = Authorization(calls[1].requests[1])
            /\ calls[2].requests[1].timeout = calls[1].requests[1].timeout
            /\ calls[1].passed.token = Absent =>
                 Authorization(calls[2].requests[1]) = Str("Token token=tokA")
            /\ calls[1].passed.timeout = Absent =>
                 calls[2].requests[1].timeout = Num(5)
       /\ Refused(calls[1]) =>
            calls[2].options = Written(calls[1].passed, SecondClientOptions)
  /\ Refused(calls[2]) => calls[2].options = calls[2].passed

\* a get on the first client with neither token nor timeout, and a delete
\* on the second client with the same object: the delete goes out under the
\* first client's token and timeout
C28_Witness ==
  /\ calls[1].verb = "get"
  /\ calls[1].passed.token = Absent
  /\ calls[1].passed.timeout = Absent
  /\ client = constructor(SecondClientOptions)
  /\ calls[2].verb = "delete"
  /\ Passed(calls[2])
  /\ Authorization(calls[2].requests[1]) = Str("Token token=tokA")
  /\ calls[2].requests[1].timeout = Num(5)

\* the message of the first check the call fails, in the order path, body
\* (post and put only), token; "" when it fails none
FirstFailure(call) ==
  IF ~Truthy(call.passed.path) THEN "Must provide options.path"
  ELSE IF call.verb \in {"post", "put"} /\ ~Truthy(call.passed.body)
  THEN "Must provide options.body"
  ELSE IF ~Truthy(call.passed.token) /\ ~Truthy(client.token)
  THEN "Must provide PagerDuty access token"
  ELSE ""

\* C29: the checks run in the order path, body, token, and a call that
\* fails any of them has its callback invoked exactly once, with the error
\* of the first check it fails and nothing else; a call that fails none
\* goes on to its request.
C29_FirstFailureOnly ==
  \A c \in Calls :
    LET call == calls[c]
    IN call.verb # "none" =>
         IF FirstFailure(call) = ""
         THEN call.requests # <<>>
         ELSE /\ call.requests = <<>>
              /\ call.callbacks = <<Invocation(Error(FirstFailure(call)), Undefined)>>

\* a post with no path, no body and no token on a client without a token:
\* the one error is the one about the path
C29_Witness ==
  \E c \in Calls :
    /\ calls[c].verb = "post"
    /\ ~Truthy(calls[c].passed.path)
    /\ ~Truthy(calls[c].passed.body)
    /\ ~Truthy(calls[c].passed.token)
    /\ ~Truthy(client.token)
    /\ calls[c].callbacks = <<Invocation(Error("Must provide options.path"), Undefined)>>

====
